---------------------------- MODULE Spec2Model ----------------------------
(***************************************************************************)
(* Model of src/app.js: an Express service holding an in-memory catalog of *)
(* products (module-level array `products`) with the route handlers        *)
(* POST/GET/PUT/PATCH/DELETE /products and GET /products/stats/summary.    *)
(*                                                                         *)
(* JavaScript values are tagged records.  Number(...) and parseInt(...)    *)
(* are computed by parsing the characters of a text, as the runtime does.  *)
(***************************************************************************)
EXTENDS Integers, Sequences, FiniteSets

VARIABLES
    products,   \* the module-level array `products` (src/app.js:14)
    req,        \* the request being answered, NoRequest when the server is idle
    res,        \* the response written by the handler, NoResponse when idle
    before,     \* history: the catalog as it was when the handler was entered
    writes      \* history: how many requests have created or edited a record

vars == <<products, req, res, before, writes>>

---------------------------------------------------------------------------
(* JavaScript values *)

undefined == [t |-> "undefined"]
null == [t |-> "null"]
NaN == [t |-> "NaN"]
Num(n) == [t |-> "number", v |-> n]
Str(s) == [t |-> "string", s |-> s]

(* The characters of the texts that requests carry in path ids, prices    *)
(* and price filters; these are the only texts the handlers parse, and a   *)
(* text outside the table has no value here.                               *)
CharsOf(s) ==
    CASE s = "" -> <<>>
      [] s = "0" -> <<"0">>
      [] s = "1" -> <<"1">>
      [] s = "2" -> <<"2">>
      [] s = "3" -> <<"3">>
      [] s = "4" -> <<"4">>
      [] s = "a" -> <<"a">>
      [] s = "1a" -> <<"1", "a">>
      [] s = "abc" -> <<"a", "b", "c">>
      [] s = "5990" -> <<"5", "9", "9", "0">>
      [] s = "10000" -> <<"1", "0", "0", "0", "0">>
      [] s = "1700000000" -> <<"1", "7", "0", "0", "0", "0", "0", "0", "0", "0">>
      [] s = "1700000001" -> <<"1", "7", "0", "0", "0", "0", "0", "0", "0", "1">>
      [] s = "1700000002" -> <<"1", "7", "0", "0", "0", "0", "0", "0", "0", "2">>

DigitChars == <<"0", "1", "2", "3", "4", "5", "6", "7", "8", "9">>

IsDigit(c) == \E i \in 1..Len(DigitChars) : DigitChars[i] = c

DigitValue(c) == (CHOOSE i \in 1..Len(DigitChars) : DigitChars[i] = c) - 1

IsSpace(c) == c = " "

RECURSIVE TrimStart(_)
TrimStart(s) ==
    IF s # <<>> /\ IsSpace(Head(s)) THEN TrimStart(Tail(s)) ELSE s

RECURSIVE TrimEnd(_)
TrimEnd(s) ==
    IF s # <<>> /\ IsSpace(s[Len(s)]) THEN TrimEnd(SubSeq(s, 1, Len(s) - 1)) ELSE s

\* the longest prefix of s made of decimal digits
RECURSIVE DigitPrefix(_)
DigitPrefix(s) ==
    IF s # <<>> /\ IsDigit(Head(s)) THEN <<Head(s)>> \o DigitPrefix(Tail(s)) ELSE <<>>

\* the value of a sequence of decimal digits
RECURSIVE DigitsValue(_)
DigitsValue(s) ==
    IF s = <<>> THEN 0
    ELSE 10 * DigitsValue(SubSeq(s, 1, Len(s) - 1)) + DigitValue(s[Len(s)])

IsSign(c) == c = "-" \/ c = "+"

Signed(sign, n) == IF sign = "-" THEN 0 - n ELSE n

(* parseInt(string) with no radix: leading white space is skipped, an      *)
(* optional sign is read, then the longest run of decimal digits; whatever *)
(* follows is ignored; no digit at all gives NaN.  (Hexadecimal "0x"       *)
(* prefixes are outside the alphabet of the model.)                        *)
parseInt(str) ==
    LET t == TrimStart(CharsOf(str.s))
        sign == IF t # <<>> /\ IsSign(Head(t)) THEN Head(t) ELSE "+"
        u == IF t # <<>> /\ IsSign(Head(t)) THEN Tail(t) ELSE t
        d == DigitPrefix(u)
    IN  IF d = <<>> THEN NaN ELSE Num(Signed(sign, DigitsValue(d)))

(* StringToNumber: white space is trimmed on both sides; the empty string  *)
(* is 0; an optional sign followed by digits only is that integer;         *)
(* anything else is NaN.  (Fractions, exponents, hexadecimal and Infinity  *)
(* are outside the alphabet of the model.)                                 *)
StringToNumber(s) ==
    LET t == TrimEnd(TrimStart(CharsOf(s)))
        sign == IF t # <<>> /\ IsSign(Head(t)) THEN Head(t) ELSE "+"
        u == IF t # <<>> /\ IsSign(Head(t)) THEN Tail(t) ELSE t
    IN  IF t = <<>> THEN Num(0)
        ELSE IF u # <<>> /\ DigitPrefix(u) = u THEN Num(Signed(sign, DigitsValue(u)))
        ELSE NaN

\* Number(v), the ToNumber conversion
Number(v) ==
    CASE v.t = "undefined" -> NaN
      [] v.t = "null" -> Num(0)
      [] v.t = "number" -> v
      [] v.t = "NaN" -> NaN
      [] v.t = "string" -> StringToNumber(v.s)

\* the global isNaN(v): converts with ToNumber first
isNaN(v) == Number(v) = NaN

\* a < b on two values neither of which is a string pair: both are
\* converted with ToNumber and a NaN operand makes the comparison false
LessThan(a, b) ==
    LET x == Number(a)
        y == Number(b)
    IN  x # NaN /\ y # NaN /\ x.v < y.v

GreaterOrEqual(a, b) ==
    LET x == Number(a)
        y == Number(b)
    IN  x # NaN /\ y # NaN /\ x.v >= y.v

LessOrEqual(a, b) == GreaterOrEqual(b, a)

\* ToBoolean(v), as used by !v and if (v)
Truthy(v) ==
    CASE v.t = "undefined" -> FALSE
      [] v.t = "null" -> FALSE
      [] v.t = "NaN" -> FALSE
      [] v.t = "number" -> v.v # 0
      [] v.t = "string" -> v.s # ""

\* a === b
StrictEquals(a, b) == a # NaN /\ a = b

\* the decimal digits of a natural number
RECURSIVE NatToString(_)
NatToString(n) ==
    IF n < 10 THEN DigitChars[n + 1]
    ELSE NatToString(n \div 10) \o DigitChars[(n % 10) + 1]

(* (num / den).toFixed(2) for num >= 0, den > 0: the quotient rounded to   *)
(* hundredths, printed with exactly two decimals.  For integer prices and  *)
(* fewer than eight records the quotient is never half-way between two     *)
(* hundredths, so the rounding direction of the binary value is not at     *)
(* stake.                                                                  *)
toFixed2(num, den) ==
    LET cents == (200 * num + den) \div (2 * den)
        frac == cents % 100
    IN  Str(NatToString(cents \div 100) \o "."
            \o DigitChars[(frac \div 10) + 1] \o DigitChars[(frac % 10) + 1])

---------------------------------------------------------------------------
(* The catalog *)

(* A record's id and price always hold numbers (the seeds, Date.now() plus *)
(* an integer, and Number(price) after the isNaN check), kept here as      *)
(* integers; its name holds whatever value the request carried.  The seed  *)
(* names are given in English (the source has them in Russian).            *)
SeedProducts ==
    << [id |-> 1, name |-> Str("Smartphone X Pro"), price |-> 49990],
       [id |-> 2, name |-> Str("Laptop Ultra 15"), price |-> 89990],
       [id |-> 3, name |-> Str("Wireless headphones"), price |-> 5990],
       [id |-> 4, name |-> Str("Smart watch Watch 5"), price |-> 15990] >>

Min(S) == CHOOSE x \in S : \A y \in S : x <= y

(* products.find(p => p.id === parseInt(id)): the first record whose id    *)
(* matches.  The record is handed out by reference; the model names it by  *)
(* its position (1-based), 0 standing for undefined.                       *)
findProductById(ps, id) ==
    LET hits == {i \in 1..Len(ps) : StrictEquals(Num(ps[i].id), parseInt(id))}
    IN  IF hits = {} THEN 0 ELSE Min(hits)

(* products.findIndex(p => p.id === parseInt(req.params.id)), 1-based,     *)
(* 0 standing for -1.                                                      *)
findIndex(ps, id) ==
    LET hits == {i \in 1..Len(ps) : StrictEquals(Num(ps[i].id), parseInt(id))}
    IN  IF hits = {} THEN 0 ELSE Min(hits)

\* products.splice(i, 1)
splice(ps, i) == SubSeq(ps, 1, i - 1) \o SubSeq(ps, i + 1, Len(ps))

\* array.filter(keep), keep given as the set of positions kept
RECURSIVE filter(_, _)
filter(ps, keep) ==
    IF ps = <<>> THEN <<>>
    ELSE LET rest == filter(SubSeq(ps, 1, Len(ps) - 1), keep)
         IN  IF Len(ps) \in keep THEN Append(rest, ps[Len(ps)]) ELSE rest

---------------------------------------------------------------------------
(* Responses.  The error and message texts of the source are Russian       *)
(* sentences; the model keeps one English tag per distinct text.           *)

NoRequest == [method |-> "none"]
NoResponse == [status |-> 0]

Response(status, body) == [status |-> status, body |-> body]

Out(ps, r) == [products |-> ps, res |-> r]

ErrNotFound == [error |-> "product with this id not found"]
ErrMissingFields == [error |-> "not all fields are filled in: name, price"]
ErrBadPrice == [error |-> "price must be a positive number"]

---------------------------------------------------------------------------
(* The route handlers.  Each takes the catalog and the request's inputs    *)
(* and yields the catalog it leaves and the response it writes.            *)

\* app.post('/products'); newId is Date.now() + Math.floor(Math.random() * 1000)
postProducts(ps, name, price, newId) ==
    IF ~Truthy(name) \/ StrictEquals(price, undefined)
    THEN Out(ps, Response(400, ErrMissingFields))
    ELSE IF isNaN(price) \/ LessThan(price, Num(0))
    THEN Out(ps, Response(400, ErrBadPrice))
    ELSE LET newProduct == [id |-> newId, name |-> name, price |-> Number(price).v]
         IN  Out(Append(ps, newProduct),
                 Response(201, [message |-> "product created", product |-> newProduct]))

\* variant: the price filters exclude the bound itself
getProductsExclusive(ps, minPrice, maxPrice) ==
    LET f1 == IF Truthy(minPrice)
              THEN filter(ps, {i \in 1..Len(ps) :
                                  LessThan(Number(minPrice), Num(ps[i].price))})
              ELSE ps
        f2 == IF Truthy(maxPrice)
              THEN filter(f1, {i \in 1..Len(f1) :
                                  LessThan(Num(f1[i].price), Number(maxPrice))})
              ELSE f1
    IN  Out(ps, Response(200, f2))

\* app.get('/products')
getProducts(ps, minPrice, maxPrice) ==
    LET f1 == IF Truthy(minPrice)
              THEN filter(ps, {i \in 1..Len(ps) :
                                  GreaterOrEqual(Num(ps[i].price), Number(minPrice))})
              ELSE ps
        f2 == IF Truthy(maxPrice)
              THEN filter(f1, {i \in 1..Len(f1) :
                                  LessOrEqual(Num(f1[i].price), Number(maxPrice))})
              ELSE f1
    IN  Out(ps, Response(200, f2))

\* app.get('/products/:id')
getProductById(ps, id) ==
    LET product == findProductById(ps, id)
    IN  IF product = 0
        THEN Out(ps, Response(404, ErrNotFound))
        ELSE Out(ps, Response(200, ps[product]))

\* variant: the body is validated before the record is looked up
putProductValidatesFirst(ps, id, name, price) ==
    LET product == findProductById(ps, id)
    IN  IF ~Truthy(name) \/ StrictEquals(price, undefined)
        THEN Out(ps, Response(400, ErrMissingFields))
        ELSE IF isNaN(price) \/ LessThan(price, Num(0))
        THEN Out(ps, Response(400, ErrBadPrice))
        ELSE IF product = 0
        THEN Out(ps, Response(404, ErrNotFound))
        ELSE LET ps2 == [ps EXCEPT ![product].name = name,
                                   ![product].price = Number(price).v]
             IN  Out(ps2, Response(200, [message |-> "product fully updated",
                                         product |-> ps2[product]]))

\* app.put('/products/:id')
putProduct(ps, id, name, price) ==
    LET product == findProductById(ps, id)
    IN  IF product = 0
        THEN Out(ps, Response(404, ErrNotFound))
        ELSE IF ~Truthy(name) \/ StrictEquals(price, undefined)
        THEN Out(ps, Response(400, ErrMissingFields))
        ELSE IF isNaN(price) \/ LessThan(price, Num(0))
        THEN Out(ps, Response(400, ErrBadPrice))
        ELSE LET ps2 == [ps EXCEPT ![product].name = name,
                                   ![product].price = Number(price).v]
             IN  Out(ps2, Response(200, [message |-> "product fully updated",
                                         product |-> ps2[product]]))

\* variant: the name is assigned even when the body has none
patchProductWritesAbsentName(ps, id, name, price) ==
    LET product == findProductById(ps, id)
    IN  IF product = 0
        THEN Out(ps, Response(404, ErrNotFound))
        ELSE LET ps1 == [ps EXCEPT ![product].name = name]
             IN  IF ~StrictEquals(price, undefined)
                 THEN IF isNaN(price) \/ LessThan(price, Num(0))
                      THEN Out(ps1, Response(400, ErrBadPrice))
                      ELSE LET ps2 == [ps1 EXCEPT ![product].price = Number(price).v]
                           IN  Out(ps2, Response(200, [message |-> "product partially updated",
                                                       product |-> ps2[product]]))
                 ELSE Out(ps1, Response(200, [message |-> "product partially updated",
                                              product |-> ps1[product]]))

\* app.patch('/products/:id'): the assignments happen in source order, so
\* the name is already written when the price check answers 400
patchProduct(ps, id, name, price) ==
    LET product == findProductById(ps, id)
    IN  IF product = 0
        THEN Out(ps, Response(404, ErrNotFound))
        ELSE LET ps1 == IF ~StrictEquals(name, undefined)
                        THEN [ps EXCEPT ![product].name = name]
                        ELSE ps
             IN  IF ~StrictEquals(price, undefined)
                 THEN IF isNaN(price) \/ LessThan(price, Num(0))
                      THEN Out(ps1, Response(400, ErrBadPrice))
                      ELSE LET ps2 == [ps1 EXCEPT ![product].price = Number(price).v]
                           IN  Out(ps2, Response(200, [message |-> "product partially updated",
                                                       product |-> ps2[product]]))
                 ELSE Out(ps1, Response(200, [message |-> "product partially updated",
                                              product |-> ps1[product]]))

\* app.delete('/products/:id')
deleteProduct(ps, id) ==
    LET productIndex == findIndex(ps, id)
    IN  IF productIndex = 0
        THEN Out(ps, Response(404, ErrNotFound))
        ELSE LET deletedProduct == ps[productIndex]
             IN  Out(splice(ps, productIndex),
                     Response(200, [message |-> "product deleted",
                                    deletedProduct |-> deletedProduct]))

\* products.reduce((sum, p) => sum + p.price, 0); every stored price is a number
RECURSIVE reduceSum(_, _)
reduceSum(ps, sum) ==
    IF ps = <<>> THEN sum ELSE reduceSum(Tail(ps), sum + Head(ps).price)

\* variant: a later record of equal price replaces the minimum
RECURSIVE reduceMinTakesLast(_, _)
reduceMinTakesLast(ps, min) ==
    IF ps = <<>> THEN min
    ELSE reduceMinTakesLast(Tail(ps),
                            IF Head(ps).price <= min.price THEN Head(ps) ELSE min)

\* products.reduce((min, p) => p.price < min.price ? p : min, products[0])
RECURSIVE reduceMin(_, _)
reduceMin(ps, min) ==
    IF ps = <<>> THEN min
    ELSE reduceMin(Tail(ps), IF Head(ps).price < min.price THEN Head(ps) ELSE min)

\* products.reduce((max, p) => p.price > max.price ? p : max, products[0])
RECURSIVE reduceMax(_, _)
reduceMax(ps, max) ==
    IF ps = <<>> THEN max
    ELSE reduceMax(Tail(ps), IF Head(ps).price > max.price THEN Head(ps) ELSE max)

\* app.get('/products/stats/summary')
getSummary(ps) ==
    LET totalProducts == Len(ps)
        totalValue == reduceSum(ps, 0)
        averagePrice == IF totalProducts > 0
                        THEN toFixed2(totalValue, totalProducts)
                        ELSE Num(0)
        cheapestProduct == IF Len(ps) > 0 THEN reduceMin(ps, ps[1]) ELSE null
        mostExpensiveProduct == IF Len(ps) > 0 THEN reduceMax(ps, ps[1]) ELSE null
    IN  Out(ps, Response(200, [totalProducts |-> totalProducts,
                               totalValue |-> totalValue,
                               averagePrice |-> averagePrice,
                               cheapestProduct |-> cheapestProduct,
                               mostExpensiveProduct |-> mostExpensiveProduct]))

---------------------------------------------------------------------------
(* Inputs *)

\* at most this many requests create or edit a record in one run of the
\* server; reads, deletions and refused requests are not counted
MaxWrites == 2

\* readings of Date.now().  Real readings are near 1.7e12, beyond 32-bit
\* integers, so the model uses one of a smaller magnitude; two requests
\* may be served within the same millisecond.
ClockReadings == {1700000000}

\* values of Math.floor(Math.random() * 1000), a subset of 0..999
RandomDraws == {0, 1}

\* the ids Create can assign
NewIds == {now + random : now \in ClockReadings, random \in RandomDraws}

\* req.body.name: absent, empty, non-empty
Names == {undefined, Str(""), Str("A")}

\* req.body.price: absent, negative, a number, non-numeric text, JSON null
Prices == {undefined, Num(0 - 1), Num(5990), Str("abc"), null}

\* text that starts with a number, and text that holds none
LeadingNumberId == Str("1a")
NoNumberId == Str("a")

\* req.params.id of GET and DELETE: the seed ids, the ids Create can
\* assign, and text that is no number
PathIds ==
    {Str("1"), Str("2"), Str("3"), Str("4")}
    \cup {Str(NatToString(n)) : n \in NewIds}
    \cup {LeadingNumberId, NoNumberId}

\* req.params.id of PUT and PATCH: one seed id, one id Create can assign,
\* and text that is no number
EditIds ==
    {Str("1")}
    \cup {Str(NatToString(now)) : now \in ClockReadings}
    \cup {LeadingNumberId, NoNumberId}

\* req.query.minPrice and req.query.maxPrice: absent or text
MinPrices == {undefined, Str("10000"), Str("5990")}
MaxPrices == {undefined, Str("5990"), Str("0"), Str("")}

---------------------------------------------------------------------------
(* The server *)

Init ==
    /\ products = SeedProducts
    /\ req = NoRequest
    /\ res = NoResponse
    /\ before = <<>>
    /\ writes = 0

Idle == req = NoRequest

Serve(request, out) ==
    /\ req' = request
    /\ res' = out.res
    /\ products' = out.products
    /\ before' = products
    /\ UNCHANGED writes

\* a request that creates or edits a record is served while the budget lasts
ServeWrite(request, out) ==
    /\ out.products # products => writes < MaxWrites
    /\ req' = request
    /\ res' = out.res
    /\ products' = out.products
    /\ before' = products
    /\ writes' = IF out.products # products THEN writes + 1 ELSE writes

Create ==
    /\ Idle
    /\ \E name \in Names, price \in Prices, now \in ClockReadings, random \in RandomDraws :
          ServeWrite([method |-> "POST", name |-> name, price |-> price,
                      now |-> now, random |-> random],
                     postProducts(products, name, price, now + random))

List ==
    /\ Idle
    /\ \E minPrice \in MinPrices, maxPrice \in MaxPrices :
          Serve([method |-> "LIST", minPrice |-> minPrice, maxPrice |-> maxPrice],
                getProducts(products, minPrice, maxPrice))

GetById ==
    /\ Idle
    /\ \E id \in PathIds :
          Serve([method |-> "GET", id |-> id], getProductById(products, id))

ReplaceById ==
    /\ Idle
    /\ \E id \in EditIds, name \in Names, price \in Prices :
          ServeWrite([method |-> "PUT", id |-> id, name |-> name, price |-> price],
                putProduct(products, id, name, price))

PatchById ==
    /\ Idle
    /\ \E id \in EditIds, name \in Names, price \in Prices :
          ServeWrite([method |-> "PATCH", id |-> id, name |-> name, price |-> price],
                patchProduct(products, id, name, price))

DeleteById ==
    /\ Idle
    /\ \E id \in PathIds :
          Serve([method |-> "DELETE", id |-> id], deleteProduct(products, id))

Summary ==
    /\ Idle
    /\ Serve([method |-> "SUMMARY"], getSummary(products))

\* the response has been sent; the server waits for the next request
Finish ==
    /\ ~Idle
    /\ req' = NoRequest
    /\ res' = NoResponse
    /\ before' = <<>>
    /\ UNCHANGED <<products, writes>>

Next ==
    \/ Create
    \/ List
    \/ GetById
    \/ ReplaceById
    \/ PatchById
    \/ DeleteById
    \/ Summary
    \/ Finish

Spec == Init /\ [][Next]_vars

---------------------------------------------------------------------------
(* Vocabulary of the properties, stated independently of the handlers *)

Answered(method) == req.method = method

\* text made of decimal digits only
IsDecimalText(s) == s # "" /\ \A i \in 1..Len(s) : IsDigit(CharsOf(s)[i])

\* a number, or text that spells a natural number
IsNumeric(v) ==
    \/ v.t = "number"
    \/ /\ v.t = "string"
       /\ IsDecimalText(v.s)


ValueOf(v) ==
    IF v.t = "number" THEN v.v ELSE DigitsValue(CharsOf(v.s))

NameMissing(v) == v = undefined \/ v = Str("")

PriceInvalid(v) == v = undefined \/ ~IsNumeric(v) \/ ValueOf(v) < 0

ValidBody(name, price) == ~NameMissing(name) /\ ~PriceInvalid(price)

\* the decimal spelling of a record's id
IdText(p) == Str(NatToString(p.id))

\* the positions of the records of ps that the path id names
Named(ps, id) == {i \in 1..Len(ps) : IdText(ps[i]) = id}

ById == {"GET", "PUT", "PATCH", "DELETE"}

TypeOK ==
    /\ \A i \in 1..Len(products) :
          /\ products[i].id \in Nat \ {0}
          /\ products[i].price \in Nat
    /\ writes \in 0..MaxWrites
    /\ (req = NoRequest) <=> (res = NoResponse)

---------------------------------------------------------------------------
(* C1: no two records of the catalog have the same id, in any state        *)
(* reachable from the seed catalog; in particular a successful Create      *)
(* assigns an id no record has.                                            *)
C1_UniqueIds ==
    \A i, j \in 1..Len(products) : i # j => products[i].id # products[j].id

(* C2: a PatchById answered with 400 leaves the whole catalog as it was,   *)
(* whether or not the body also carried a name.                            *)
C2_FailedPatchKeepsCatalog ==
    (Answered("PATCH") /\ res.status = 400) => products = before

(* C3: Create, and ReplaceById on the id of a record, answer 400 and leave *)
(* the catalog unchanged whenever the name is absent or empty or the price *)
(* is absent, non-numeric or negative.                                     *)
C3_InvalidBodyRefused ==
    ( /\ \/ Answered("POST")
         \/ Answered("PUT") /\ Named(before, req.id) # {}
      /\ NameMissing(req.name) \/ PriceInvalid(req.price) )
    => (res.status = 400 /\ products = before)

(* C4: a request by id whose (decimal) id no record has is answered 404    *)
(* with the catalog unchanged, whatever its body: an invalid body on an    *)
(* unknown id is never answered 400.                                       *)
C4_UnknownIdNotFound ==
    ( /\ req.method \in ById
      /\ IsDecimalText(req.id.s)
      /\ Named(before, req.id) = {} )
    => (res.status = 404 /\ res.body = ErrNotFound /\ products = before)

C4_Witness ==
    /\ Answered("PUT")
    /\ IsDecimalText(req.id.s)
    /\ Named(before, req.id) = {}
    /\ Len(before) > 0
    /\ PriceInvalid(req.price)
    /\ res.status = 404

(* C5: a Create with a non-empty name and a numeric price >= 0 answers     *)
(* 201 and appends exactly the created record, leaving the earlier records *)
(* and their order as they were; a GetById with the returned id, issued    *)
(* right after, returns a record with the name and price given to Create.  *)
C5_CreateThenGet ==
    (Answered("POST") /\ ValidBody(req.name, req.price))
    => /\ res.status = 201
       /\ Len(products) = Len(before) + 1
       /\ SubSeq(products, 1, Len(before)) = before
       /\ products[Len(products)] = res.body.product
       /\ LET got == getProductById(products, IdText(res.body.product)).res
          IN  /\ got.status = 200
              /\ got.body.name = req.name
              /\ got.body.price = ValueOf(req.price)

\* the same, in the states where the assigned id was free
C5_CreateThenGetWhenIdsUnique == C1_UniqueIds => C5_CreateThenGet

(* C6: a DeleteById on the id of a record removes exactly one record with  *)
(* that id, keeps the others and their order, returns the removed record   *)
(* as deletedProduct, and a GetById for the same id issued right after is  *)
(* answered 404.                                                           *)
C6_DeleteThenGet ==
    (Answered("DELETE") /\ Named(before, req.id) # {})
    => /\ res.status = 200
       /\ \E i \in Named(before, req.id) :
             /\ Len(products) = Len(before) - 1
             /\ \A k \in 1..Len(products) :
                   products[k] = IF k < i THEN before[k] ELSE before[k + 1]
             /\ res.body.deletedProduct = before[i]
       /\ getProductById(products, req.id).res.status = 404

\* the same, in the states where the deleted id was held by one record
C6_DeleteThenGetWhenIdsUnique ==
    (\A i, j \in 1..Len(before) : i # j => before[i].id # before[j].id)
    => C6_DeleteThenGet

(* C7: a ReplaceById answered 200 overwrites name and price of the record  *)
(* it addresses; a PatchById answered 200 overwrites exactly the fields    *)
(* the body carries (the name even when empty) and keeps the others; the   *)
(* record's id and position, the catalog length and every other record     *)
(* stay as they were.  The stored price is the number the body's price     *)
(* converts to.                                                            *)
C7_UpdateFrame ==
    ((Answered("PUT") \/ Answered("PATCH")) /\ res.status = 200)
    => \E i \in 1..Len(before) :
          /\ IsDecimalText(req.id.s) => IdText(before[i]) = req.id
          /\ Len(products) = Len(before)
          /\ \A k \in 1..Len(before) : k # i => products[k] = before[k]
          /\ products[i].id = before[i].id
          /\ products[i].name =
                IF Answered("PUT") \/ req.name # undefined
                THEN req.name ELSE before[i].name
          /\ products[i].price =
                IF Answered("PUT") \/ req.price # undefined
                THEN Number(req.price).v ELSE before[i].price
          /\ res.body.product = products[i]

C7_Witness ==
    /\ Answered("PATCH")
    /\ res.status = 200
    /\ req.name = undefined
    /\ IsNumeric(req.price)
    /\ \E i \in 1..Len(before) :
          /\ products[i].price # before[i].price
          /\ products[i].name = before[i].name

(* C8: a path id that is not a number matches no record: GetById,          *)
(* ReplaceById, PatchById and DeleteById answer 404 and leave the catalog  *)
(* unchanged.                                                              *)
C8_NonNumericIdNotFound ==
    (req.method \in ById /\ ~IsDecimalText(req.id.s))
    => (res.status = 404 /\ products = before)

\* the sum of the prices of the first n records
RECURSIVE PriceSum(_, _)
PriceSum(ps, n) == IF n = 0 THEN 0 ELSE PriceSum(ps, n - 1) + ps[n].price

\* position i holds the first record of ps with the least price
FirstCheapest(ps, i) ==
    /\ \A k \in 1..Len(ps) : ps[k].price >= ps[i].price
    /\ \A k \in 1..(i - 1) : ps[k].price > ps[i].price

\* position i holds the first record of ps with the greatest price
FirstMostExpensive(ps, i) ==
    /\ \A k \in 1..Len(ps) : ps[k].price <= ps[i].price
    /\ \A k \in 1..(i - 1) : ps[k].price < ps[i].price

(* C9: Summary returns the record count, the sum of all prices, and the    *)
(* records of least and greatest price, the earliest in catalog order      *)
(* among equals; on the empty catalog 0, 0, averagePrice 0 and null for    *)
(* both records; on the seed catalog 4, 161960, ids 3 and 2.  It never     *)
(* changes the catalog.                                                    *)
C9_Summary ==
    Answered("SUMMARY")
    => /\ res.status = 200
       /\ products = before
       /\ res.body.totalProducts = Len(products)
       /\ res.body.totalValue = PriceSum(products, Len(products))
       /\ IF products = <<>>
          THEN /\ res.body.totalProducts = 0
               /\ res.body.totalValue = 0
               /\ res.body.averagePrice = Num(0)
               /\ res.body.cheapestProduct = null
               /\ res.body.mostExpensiveProduct = null
          ELSE /\ \E i \in 1..Len(products) :
                     /\ FirstCheapest(products, i)
                     /\ res.body.cheapestProduct = products[i]
               /\ \E i \in 1..Len(products) :
                     /\ FirstMostExpensive(products, i)
                     /\ res.body.mostExpensiveProduct = products[i]
       /\ products = SeedProducts
          => /\ res.body.totalProducts = 4
             /\ res.body.totalValue = 161960
             /\ res.body.cheapestProduct.id = 3
             /\ res.body.mostExpensiveProduct.id = 2

\* a Summary over a catalog whose least price is held by two records
C9_Witness ==
    /\ Answered("SUMMARY")
    /\ \E i, j \in 1..Len(products) :
          /\ i < j
          /\ products[i].price = products[j].price
          /\ products[i].id # products[j].id
          /\ FirstCheapest(products, i)
          /\ res.body.cheapestProduct = products[i]

\* a price filter of the query: absent, or text that spells a number
NumericFilter(v) == v = undefined \/ (v.t = "string" /\ IsDecimalText(v.s))

InRange(p, minPrice, maxPrice) ==
    /\ minPrice # undefined => p.price >= ValueOf(minPrice)
    /\ maxPrice # undefined => p.price <= ValueOf(maxPrice)

(* C10: List, with each filter absent or numeric, returns exactly the      *)
(* records of the current catalog whose price is >= minPrice (when given)  *)
(* and <= maxPrice (when given), in catalog order: the whole catalog with  *)
(* no filter, the empty sequence when nothing matches, ids 1, 2, 4 for     *)
(* minPrice=10000 on the seed catalog.  It never changes the catalog.      *)
C10_List ==
    (Answered("LIST") /\ NumericFilter(req.minPrice) /\ NumericFilter(req.maxPrice))
    => /\ res.status = 200
       /\ products = before
       /\ LET Keep(p) == InRange(p, req.minPrice, req.maxPrice)
          IN  res.body = SelectSeq(products, Keep)
       /\ (req.minPrice = undefined /\ req.maxPrice = undefined)
          => res.body = products
       /\ (products = SeedProducts /\ req.minPrice = Str("10000")
              /\ req.maxPrice = undefined)
          => (Len(res.body) = 3 /\ res.body[1].id = 1 /\ res.body[2].id = 2
                 /\ res.body[3].id = 4)

\* a List with both filters after creates and deletes, keeping some
\* records (one of them at the bound itself) and dropping others
C10_Witness ==
    /\ Answered("LIST")
    /\ req.minPrice = Str("5990")
    /\ req.maxPrice = Str("5990")
    /\ Len(products) # Len(SeedProducts)
    /\ Len(res.body) > 0
    /\ Len(res.body) < Len(products)

=============================================================================
